---------------------------- MODULE Spec2Model ----------------------------
(***************************************************************************)
(* Model of tools/rw-heatmaps/plot_data.py: the CSV loader                 *)
(* (load_data_files), the CenteredNorm colour normalizer and the grid      *)
(* renderer (plot_data), with main() as the pipeline that joins them.      *)
(*                                                                         *)
(* Numbers.  Latencies are floats in the program.  Here a parsed number is *)
(* an integer and a computed one is a fraction [num, den]; a fraction with *)
(* den = 0 is a non-finite float (num = 0: NaN, num # 0: +/-inf).  Two     *)
(* fractions are compared by cross multiplication (RatEq).                 *)
(*                                                                         *)
(* Text.  A CSV cell is a sequence of one-character strings, so that       *)
(* str.split(':') and float() are computed on the text.  An empty field is *)
(* the empty sequence; pandas reads it as NaN.                             *)
(***************************************************************************)
EXTENDS Integers, Sequences, FiniteSets, TLC

VARIABLES
    \* ---- main(): the pipeline
    pc,          \* position of the process
    file_a,      \* params.input_file_a: a file, or Missing (path with no file)
    file_b,      \* params.input_file_b: a file, Missing, or NoFile (not given)
    zero,        \* params.zero
    exits,       \* the codes passed to sys.exit, in order
    log,         \* sequence of logger.error messages
    args,        \* *args of plot_data: sequence of {'dataframe','param'}
    delta_df,    \* plot_data's delta_df (empty outside dual mode)
    count,       \* plot_data's count
    count2,      \* plot_data's count2
    tmps,        \* datasets the outer loop of dual mode has still to take
    todo,        \* ratio groups the current groupby loop has still to take
    panels,      \* panels drawn so far, in order
    saved,       \* number of plt.savefig calls
    \* ---- one CenteredNorm object
    vcenter,     \* self._vcenter
    halfrange,   \* self._halfrange (None when unset)
    vmin,        \* self.vmin
    vmax,        \* self.vmax
    clip,        \* self.clip
    last         \* the last operation on the object: its inputs and outcome
                 \* (for a call: had, the halfrange the call found)

mainVars == <<pc, file_a, file_b, zero, exits, log, args, delta_df, count,
              count2, tmps, todo, panels, saved>>
normVars == <<vcenter, halfrange, vmin, vmax, clip, last>>
vars == <<pc, file_a, file_b, zero, exits, log, args, delta_df, count,
          count2, tmps, todo, panels, saved,
          vcenter, halfrange, vmin, vmax, clip, last>>

\* An optional number (halfrange, vmin, vmax) is <<>> when it is None and <<v>>
\* when it is set
None == <<>>
Some(v) == <<v>>
\* params.input_file_b when the argument is not given, and a path that names
\* no file
NoFile == [kind |-> "none"]
Missing == [kind |-> "missing"]

\* ------------------------------------------------------------------------
\* Bounds of the model
\* ------------------------------------------------------------------------
MaxRows == 2      \* DATA rows of an input file
MaxIter == 2      \* iteration columns of an input file
MaxGroups == 9    \* ratio groups of a dataset handed to plot_data directly
MaxVal == 2       \* |vcenter|, |halfrange argument|, |data value| of the norm
MaxHalf == 6      \* halfrange values explored

\* ------------------------------------------------------------------------
\* Small helpers
\* ------------------------------------------------------------------------
Max(a, b) == IF a >= b THEN a ELSE b
Abs(a) == IF a < 0 THEN -a ELSE a
SetMin(S) == CHOOSE x \in S : \A y \in S : x <= y
SetMax(S) == CHOOSE x \in S : \A y \in S : x >= y
Range(s) == {s[i] : i \in DOMAIN s}

Rat(n, d) == [num |-> n, den |-> d]
RatEq(a, b) == a.num * b.den = b.num * a.den /\ (a.den = 0 <=> b.den = 0)
NaN == Rat(0, 0)
IsFinite(a) == a.den # 0

\* ------------------------------------------------------------------------
\* Text of a cell
\* ------------------------------------------------------------------------
Digits == <<"0", "1", "2", "3", "4", "5", "6", "7", "8", "9">>
IsDigit(ch) == \E i \in 1..10 : Digits[i] = ch
DigitVal(ch) == (CHOOSE i \in 1..10 : Digits[i] = ch) - 1
Digit(n) == Digits[n + 1]

\* str.split(':')
RECURSIVE Split(_)
Split(s) ==
    IF \A i \in 1..Len(s) : s[i] # ":"
    THEN <<s>>
    ELSE LET p == SetMin({i \in 1..Len(s) : s[i] = ":"})
         IN  <<SubSeq(s, 1, p - 1)>> \o Split(SubSeq(s, p + 1, Len(s)))

\* float(text) raises ValueError unless the text is a number
IsNumber(s) == Len(s) > 0 /\ \A i \in 1..Len(s) : IsDigit(s[i])
RECURSIVE FloatOf(_)
FloatOf(s) ==
    IF Len(s) = 0 THEN 0
    ELSE 10 * FloatOf(SubSeq(s, 1, Len(s) - 1)) + DigitVal(s[Len(s)])


\* ------------------------------------------------------------------------
\* An input file as pd.read_csv returns it: the header (column names in
\* order) and the rows (column name -> cell text); row i of the sequence has
\* index label i - 1 (the RangeIndex of read_csv)
\* ------------------------------------------------------------------------
IterNames == <<"iter1", "iter2", "iter3", "iter4">>
\* x.find('iter') != -1, over the column names of the model
ContainsIter(x) == x \in Range(IterNames)
IterIndex(x) == CHOOSE j \in DOMAIN IterNames : IterNames[j] = x

HasCol(f, c) == c \in Range(f.header)

\* dtype inference of read_csv on a file with at least one row: a column is
\* numeric (int64/float64) when every cell is a number or empty, and object
\* (strings) otherwise
IsObjectColumn(f, c) ==
    \E i \in 1..Len(f.rows) : Len(f.rows[i][c]) > 0 /\ ~IsNumber(f.rows[i][c])

\* positions of the rows df[df['type'] == t], in order
RECURSIVE RowsOfTypeFrom(_, _, _)
RowsOfTypeFrom(f, t, i) ==
    IF i > Len(f.rows) THEN <<>>
    ELSE (IF f.rows[i]["type"] = t THEN <<i>> ELSE <<>>)
         \o RowsOfTypeFrom(f, t, i + 1)
RowsOfType(f, t) == RowsOfTypeFrom(f, t, 1)

\* cols = [x for x in df.columns if x.find('iter') != -1]
IterCols(f) == SelectSeq(f.header, ContainsIter)

\* tmp = [df[df['type'] == 'DATA'][x].str.split(':') for x in cols]
\* an empty cell is NaN and stays NaN under .str.split: NaNCell stands for it
\* (str.split never returns an empty list)
NaNCell == <<>>
SplitCell(cell) == IF Len(cell) = 0 THEN NaNCell ELSE Split(cell)
SplitColumn(f, x) ==
    LET data == RowsOfType(f, "DATA")
    IN  [k \in 1..Len(data) |-> SplitCell(f.rows[data[k]][x])]

\* WriteOf with the index of the read component
WriteOf_Component0(x) == FloatOf(x[1])

\* x.apply(lambda x: float(x[0])) and x.apply(lambda x: float(x[1]))
ReadOf(x) == FloatOf(x[1])
WriteOf(x) == FloatOf(x[2])
\* the exception the lambda raises on one split cell, or "none": NaN is a
\* float and cannot be subscripted
ReadError(x) ==
    IF x = NaNCell THEN "TypeError"
    ELSE IF ~IsNumber(x[1]) THEN "ValueError"
    ELSE "none"
WriteError(x) ==
    IF x = NaNCell THEN "TypeError"
    ELSE IF Len(x) < 2 THEN "IndexError"
    ELSE IF ~IsNumber(x[2]) THEN "ValueError"
    ELSE "none"

\* the first entry of a sequence of outcomes that is an exception, or "none"
FirstError(errs) ==
    IF \A i \in 1..Len(errs) : errs[i] = "none" THEN "none"
    ELSE errs[SetMin({i \in 1..Len(errs) : errs[i] # "none"})]

\* the outcomes of applying a lambda to the columns of tmp in order, each
\* column row by row
ReadErrors(tmp, n) ==
    [i \in 1..(Len(tmp) * n) |-> ReadError(tmp[((i - 1) \div n) + 1][((i - 1) % n) + 1])]
WriteErrors(tmp, n) ==
    [i \in 1..(Len(tmp) * n) |-> WriteError(tmp[((i - 1) \div n) + 1][((i - 1) % n) + 1])]

\* sum(list of Series): element-wise, starting from 0
RECURSIVE SumSeries(_, _)
SumSeries(list, n) ==
    IF Len(list) = 0 THEN [k \in 1..n |-> 0]
    ELSE LET rest == SumSeries(Tail(list), n)
         IN  [k \in 1..n |-> list[1][k] + rest[k]]

\* read_avg = sum(read_df) / len(read_df)
AvgSeries(list, n) ==
    LET total == SumSeries(list, n)
    IN  [k \in 1..n |-> Rat(total[k], Len(list))]

\* astype(float): an empty cell is NaN and stays NaN; astype(int) raises on NaN
AsFloat(cell) == IF Len(cell) = 0 THEN NaN ELSE Rat(FloatOf(cell), 1)
AsFloatRaises(cell) == Len(cell) > 0 /\ ~IsNumber(cell)
AsIntRaises(cell) == ~IsNumber(cell)

\* The exception the second try block of load_data_files catches for one
\* frame, or "none": the statements of lines 47-65 in order
LoadError(f) ==
    LET data == RowsOfType(f, "DATA")
        cols == IterCols(f)
        tmp  == [j \in 1..Len(cols) |-> SplitColumn(f, cols[j])]
    IN  IF ~HasCol(f, "type") THEN "KeyError"
        ELSE IF Len(RowsOfType(f, "PARAM")) # 0 /\ ~HasCol(f, "comment")
        THEN "KeyError"
        ELSE IF \E c \in {"ratio", "conn_size", "value_size"} : ~HasCol(f, c)
        THEN "KeyError"
        ELSE IF \E j \in 1..Len(cols) : ~IsObjectColumn(f, cols[j])
        THEN "AttributeError"
        ELSE IF FirstError(ReadErrors(tmp, Len(data))) # "none"
        THEN FirstError(ReadErrors(tmp, Len(data)))
        ELSE IF Len(cols) = 0 THEN "ZeroDivisionError"
        ELSE IF FirstError(WriteErrors(tmp, Len(data))) # "none"
        THEN FirstError(WriteErrors(tmp, Len(data)))
        ELSE IF \E k \in 1..Len(data) : AsFloatRaises(f.rows[data[k]]["ratio"])
        THEN "ValueError"
        ELSE IF \E k \in 1..Len(data) :
                   \/ AsIntRaises(f.rows[data[k]]["conn_size"])
                   \/ AsIntRaises(f.rows[data[k]]["value_size"])
        THEN "ValueError"
        ELSE "none"

\* One pass of the loop body of lines 46-69 that raises nothing: the
\* processed dataset {'dataframe': new_df, 'param': param_str}.  A row of
\* new_df keeps the index label of its row in the file.
LoadOne(f) ==
    LET data  == RowsOfType(f, "DATA")
        param == RowsOfType(f, "PARAM")
        n     == Len(data)
        cols  == IterCols(f)
        tmp   == [j \in 1..Len(cols) |-> SplitColumn(f, cols[j])]
        read_df  == [j \in 1..Len(cols) |-> [k \in 1..n |-> ReadOf(tmp[j][k])]]
        write_df == [j \in 1..Len(cols) |-> [k \in 1..n |-> WriteOf(tmp[j][k])]]
        read_avg  == AvgSeries(read_df, n)
        write_avg == AvgSeries(write_df, n)
    IN  [dataframe |->
            [k \in 1..n |->
                [idx        |-> data[k] - 1,
                 ratio      |-> AsFloat(f.rows[data[k]]["ratio"]),
                 conn_size  |-> FloatOf(f.rows[data[k]]["conn_size"]),
                 value_size |-> FloatOf(f.rows[data[k]]["value_size"]),
                 read       |-> read_avg[k],
                 write      |-> write_avg[k]]],
         param |-> IF Len(param) # 0 THEN f.rows[param[1]]["comment"] ELSE <<>>]

\* load_data_files with "except ValueError" for "except Exception": any other
\* exception leaves the function uncaught, and nothing is logged
load_data_files_ValueErrorOnly(fa, fb) ==
    LET given == SelectSeq(<<fa, fb>>, LAMBDA i : i.kind # "none")
        bad   == {i \in 1..Len(given) : LoadError(given[i]) # "none"}
    IN  IF \E i \in 1..Len(given) : given[i].kind = "missing"
        THEN [exit |-> <<1>>, log |-> <<"FileNotFoundError">>, res |-> <<>>]
        ELSE IF bad # {}
        THEN [exit |-> <<1>>,
              log |-> IF LoadError(given[SetMin(bad)]) = "ValueError"
                      THEN <<"ValueError">> ELSE <<>>,
              res |-> <<>>]
        ELSE [exit |-> <<>>, log |-> <<>>,
              res |-> [i \in 1..Len(given) |-> LoadOne(given[i])]]

\* load_data_files(*args): what it logs, whether it exits, what it returns
load_data_files(fa, fb) ==
    LET given == SelectSeq(<<fa, fb>>, LAMBDA i : i.kind # "none")
        bad   == {i \in 1..Len(given) : LoadError(given[i]) # "none"}
    IN  IF \E i \in 1..Len(given) : given[i].kind = "missing"
        THEN [exit |-> <<1>>, log |-> <<"FileNotFoundError">>, res |-> <<>>]
        ELSE IF bad # {}
        THEN [exit |-> <<1>>, log |-> <<LoadError(given[SetMin(bad)])>>, res |-> <<>>]
        ELSE [exit |-> <<>>, log |-> <<>>,
              res |-> [i \in 1..Len(given) |-> LoadOne(given[i])]]

\* ------------------------------------------------------------------------
\* plot_data: helpers
\* ------------------------------------------------------------------------
RECURSIVE SortedSeq(_)
SortedSeq(S) ==
    IF S = {} THEN <<>>
    ELSE LET m == SetMin(S) IN <<m>> \o SortedSeq(S \ {m})

\* df.groupby('ratio'): one group per distinct ratio, keys ascending, rows
\* with a NaN ratio dropped; a group is (val, df)
GroupBy(df) ==
    LET keys == SortedSeq({df[k].ratio.num : k \in {i \in 1..Len(df) : IsFinite(df[i].ratio)}})
    IN  [g \in 1..Len(keys) |->
            [val |-> keys[g],
             df  |-> SelectSeq(df, LAMBDA row : row.ratio = Rat(keys[g], 1))]]

\* (b - a) / a * 100 on floats: a zero a gives +/-inf or NaN
Pct(a, b) ==
    IF ~IsFinite(a) \/ ~IsFinite(b) THEN NaN
    ELSE LET d == Rat(b.num * a.den - a.num * b.den, b.den * a.den)
         IN  IF a.num = 0
             THEN Rat(IF d.num > 0 THEN 1 ELSE IF d.num < 0 THEN -1 ELSE 0, 0)
             ELSE Rat(d.num * a.den * 100, d.den * a.num)

\* delta_df = df1.copy()
\* delta_df[['read','write']] = ((df1[[..]] - df0[[..]]) / df0[[..]]) * 100
\* pandas aligns the operands of - and / on their index labels, and the
\* assignment on delta_df's labels: a row of df1 whose label df0 lacks gets NaN
DeltaOf(df0, df1) ==
    [k \in 1..Len(df1) |->
        LET b == df1[k]
            same == {i \in 1..Len(df0) : df0[i].idx = b.idx}
        IN  IF same = {}
            THEN [b EXCEPT !.read = NaN, !.write = NaN]
            ELSE LET a == df0[CHOOSE i \in same : TRUE]
                 IN  [b EXCEPT !.read = Pct(a.read, b.read),
                               !.write = Pct(a.write, b.write)]]

\* SubplotRaises with a grid that takes one panel more
SubplotRaises_OneMore(nrows, ncols, index) == index < 1 \/ index > nrows * ncols + 1

\* plt.subplot(nrows, ncols, index) raises ValueError unless 1 <= index <= nrows*ncols
SingleRows == 4
SingleCols == 2
DualRows == 8
DualCols == 3
SubplotRaises(nrows, ncols, index) == index < 1 \/ index > nrows * ncols

\* ------------------------------------------------------------------------
\* main(): load_data_files(params.input_file_a, params.input_file_b), then
\* plot_data(params.title, *result)
\* ------------------------------------------------------------------------
LoadDataFiles ==
    /\ pc = "main"
    /\ LET r == load_data_files(file_a, file_b)
       IN  /\ exits' = exits \o r.exit
           /\ log' = log \o r.log
           /\ args' = r.res
           /\ pc' = IF r.exit # <<>> THEN "exit" ELSE "plot_data"
    /\ UNCHANGED <<file_a, file_b, zero, delta_df, count, count2, tmps, todo,
                   panels, saved>>
    /\ UNCHANGED normVars

\* plot_data up to its loops: lines 178-183, 196-206 and 248-249
PlotDataEnter ==
    /\ pc = "plot_data"
    /\ IF Len(args) = 1
       THEN /\ pc' = "single"
            /\ count' = 0
            /\ todo' = GroupBy(args[1].dataframe)
            /\ UNCHANGED <<delta_df, tmps>>
       ELSE IF Len(args) = 2
       THEN /\ pc' = "dual"
            /\ count' = 0
            /\ delta_df' = DeltaOf(args[1].dataframe, args[2].dataframe)
            /\ tmps' = <<args[1].dataframe, args[2].dataframe, delta_df'>>
            /\ todo' = <<>>
       ELSE /\ pc' = "raised"
            /\ UNCHANGED <<delta_df, count, tmps, todo>>
    /\ UNCHANGED <<file_a, file_b, zero, exits, log, args, count2, panels, saved>>
    /\ UNCHANGED normVars

\* One pass of the loop of lines 184-194.  drawn = FALSE: a plotting call of
\* the pass raises.
DrawSingle ==
    /\ pc = "single"
    /\ todo # <<>>
    /\ \E drawn \in BOOLEAN :
        /\ count' = count + 1
        /\ IF SubplotRaises(SingleRows, SingleCols, count') \/ ~drawn
           THEN /\ pc' = "raised"
                /\ UNCHANGED <<todo, panels>>
           ELSE /\ pc' = pc
                /\ todo' = Tail(todo)
                /\ panels' = Append(panels,
                                [grid |-> <<SingleRows, SingleCols>>, slot |-> count',
                                 src |-> 1, val |-> todo[1].val,
                                 cmap |-> "default", norm |-> "None",
                                 colorbar |-> "plain", title |-> "ratio"])
    /\ UNCHANGED <<file_a, file_b, zero, exits, log, args, delta_df, count2, tmps,
                   saved>>
    /\ UNCHANGED normVars

\* The head of the loop of line 207: the next of df0, df1, delta_df
\* (lines 207-210)
NextDataset ==
    /\ pc = "dual"
    /\ todo = <<>>
    /\ tmps # <<>>
    /\ count' = count + 1
    /\ count2' = count'
    /\ todo' = GroupBy(Head(tmps))
    /\ tmps' = Tail(tmps)
    /\ UNCHANGED <<pc, file_a, file_b, zero, exits, log, args, delta_df, panels,
                   saved>>
    /\ UNCHANGED normVars

\* The panel one pass of the loop of lines 210-244 draws: plt.subplot(8, 3,
\* count2), then the colour map, norm, title and colour bar chosen from count2
DualPanel(cnt, cnt2, val, z) ==
    [grid |-> <<DualRows, DualCols>>, slot |-> cnt2,
     src |-> cnt, val |-> val,
     cmap |-> IF cnt2 % 3 = 0 THEN "bwr" ELSE "viridis",
     norm |-> IF cnt2 % 3 = 0 /\ z THEN "CenteredNorm" ELSE "None",
     colorbar |-> IF cnt2 % 3 = 0 THEN "%.2f%%" ELSE "plain",
     title |-> IF cnt2 = 1 THEN "input_file_a"
               ELSE IF cnt2 = 2 THEN "input_file_b"
               ELSE IF cnt2 = 3 THEN "Gain"
               ELSE "ratio"]

\* NextCount2 stepping to the neighbouring slot
NextCount2_Neighbour(cnt2) == cnt2 + 1

\* count2 += 3
NextCount2(cnt2) == cnt2 + 3

\* One pass of the loop of lines 210-244
DrawDual ==
    /\ pc = "dual"
    /\ todo # <<>>
    /\ \E drawn \in BOOLEAN :
        IF SubplotRaises(DualRows, DualCols, count2) \/ ~drawn
        THEN /\ pc' = "raised"
             /\ UNCHANGED <<todo, panels, count2>>
        ELSE /\ pc' = pc
             /\ todo' = Tail(todo)
             /\ panels' = Append(panels, DualPanel(count, count2, todo[1].val, zero))
             /\ count2' = NextCount2(count2)
    /\ UNCHANGED <<file_a, file_b, zero, exits, log, args, delta_df, count, tmps,
                   saved>>
    /\ UNCHANGED normVars

\* After the loops: fig.suptitle, fig.subplots_adjust, plt.savefig
\* (lines 195 / 245-247, 250-251)
SaveFig ==
    /\ pc \in {"single", "dual"}
    /\ todo = <<>>
    /\ tmps = <<>>
    /\ saved' = saved + 1
    /\ pc' = "done"
    /\ UNCHANGED <<file_a, file_b, zero, exits, log, args, delta_df, count, count2,
                   tmps, todo, panels>>
    /\ UNCHANGED normVars

\* ------------------------------------------------------------------------
\* The input files explored
\* ------------------------------------------------------------------------
FullHeader(nIter) ==
    <<"type", "ratio", "conn_size", "value_size">>
        \o [j \in 1..nIter |-> IterNames[j]] \o <<"comment">>

\* a well-formed "read:write" cell; p varies the values
GoodCell(p, k, j) ==
    <<Digit((k + j + p) % 4), ":", Digit((2 * k + j + p + 1) % 4)>>

RatioPatterns == {"same", "up", "down"}
RatioCell(rp, k, n) ==
    IF rp = "same" THEN <<"1">>
    ELSE IF rp = "up" THEN <<Digit(k)>>
    ELSE <<Digit(n + 1 - k)>>

ParamRow(h) ==
    [c \in Range(h) |->
        IF c = "type" THEN "PARAM"
        ELSE IF c = "comment" THEN <<"k", "=", "1">>
        ELSE <<>>]

DataRow(h, k, n, rp, p) ==
    [c \in Range(h) |->
        IF c = "type" THEN "DATA"
        ELSE IF c = "ratio" THEN RatioCell(rp, k, n)
        ELSE IF c = "conn_size" THEN <<Digit(k)>>
        ELSE IF c = "value_size" THEN <<"2">>
        ELSE IF c = "comment" THEN <<>>
        ELSE GoodCell(p, k, IterIndex(c))]

ParamPositions == {"none", "first", "last"}

\* a file with nIter iteration columns, n DATA rows and the PARAM row at pos
GoodFile(nIter, n, pos, rp, p) ==
    LET h == FullHeader(nIter)
    IN  [kind   |-> "file",
         header |-> h,
         rows   |-> (IF pos = "first" THEN <<ParamRow(h)>> ELSE <<>>)
                    \o [k \in 1..n |-> DataRow(h, k, n, rp, p)]
                    \o (IF pos = "last" THEN <<ParamRow(h)>> ELSE <<>>)]

\* the files explored hold at least one row
HasRows(n, pos) == n > 0 \/ pos # "none"

GoodFiles ==
    {GoodFile(nIter, np[1], np[2], rp, p) :
        nIter \in 1..MaxIter,
        np \in {x \in (0..MaxRows) \X ParamPositions : HasRows(x[1], x[2])},
        rp \in RatioPatterns, p \in 1..2}

\* the same file without the columns in drop
DropColumns(f, drop) ==
    LET h == SelectSeq(f.header, LAMBDA c : c \notin drop)
    IN  [kind   |-> "file",
         header |-> h,
         rows   |-> [i \in 1..Len(f.rows) |-> [c \in Range(h) |-> f.rows[i][c]]]]

\* the same file with the cell of row i, column c replaced
SetCell(f, i, c, cell) == [f EXCEPT !.rows[i][c] = cell]

\* cells that are not a well-formed pair, and fields that are not a number
OddIterCells ==
    {<<>>, <<"2">>, <<"1", ":">>, <<"x", ":", "1">>, <<"1", ":", "x">>,
     <<"1", ":", "2", ":", "3">>, <<"x">>}
OddFields == {<<>>, <<"x">>}

FaultBases ==
    {GoodFile(nIter, np[1], np[2], "up", 1) :
        nIter \in 1..MaxIter,
        np \in {x \in (0..MaxRows) \X ParamPositions : HasRows(x[1], x[2])}}

FaultyFiles ==
    UNION {
        {DropColumns(f, {c}) : c \in {"type", "ratio", "conn_size", "value_size", "comment"}}
        \cup {DropColumns(f, Range(IterNames))}
        \cup {SetCell(f, i, c, cell) :
                i \in 1..Len(f.rows), c \in Range(IterCols(f)), cell \in OddIterCells}
        \cup {SetCell(f, i, c, cell) :
                i \in 1..Len(f.rows), c \in {"ratio", "conn_size", "value_size"},
                cell \in OddFields}
        : f \in FaultBases}

\* the pairs of files of dual mode
PairA == {GoodFile(nIter, n, pos, rp, 1) :
             nIter \in 1..MaxIter, n \in 1..MaxRows, pos \in ParamPositions,
             rp \in RatioPatterns}
PairB == {GoodFile(1, n, pos, rp, 2) :
             n \in 1..MaxRows, pos \in ParamPositions, rp \in RatioPatterns}

\* the state of a CenteredNorm() nobody has touched
NormIdle ==
    /\ vcenter = 0
    /\ halfrange = None
    /\ vmin = None
    /\ vmax = None
    /\ clip = FALSE
    /\ last = [op |-> "__init__", value |-> None, raised |-> FALSE]

Init ==
    /\ pc = "main"
    /\ \/ /\ file_a \in GoodFiles \cup FaultyFiles \cup {Missing}
          /\ file_b \in {NoFile, Missing}
          /\ zero = TRUE
       \/ /\ file_a \in PairA
          /\ file_b \in PairB
          /\ zero \in BOOLEAN
       \/ /\ file_a = GoodFile(1, 1, "first", "up", 1)
          /\ file_b \in FaultyFiles
          /\ zero = TRUE
    /\ exits = <<>>
    /\ log = <<>>
    /\ args = <<>>
    /\ delta_df = <<>>
    /\ count = 0
    /\ count2 = 0
    /\ tmps = <<>>
    /\ todo = <<>>
    /\ panels = <<>>
    /\ saved = 0
    /\ NormIdle

Next ==
    \/ LoadDataFiles
    \/ PlotDataEnter
    \/ DrawSingle
    \/ NextDataset
    \/ DrawDual
    \/ SaveFig

Spec == Init /\ [][Next]_vars

\* ------------------------------------------------------------------------
\* CenteredNorm(colors.Normalize).  An object is the record of its
\* attributes; each method is the function from the object before the call
\* to the object after it.
\* ------------------------------------------------------------------------
Vals == -MaxVal..MaxVal
\* the arrays given to autoscale and autoscale_None: none, one or two values
Arrays == {<<>>} \cup [1..1 -> Vals] \cup [1..2 -> Vals]
ArrayMin(A) == SetMin(Range(A))
ArrayMax(A) == SetMax(Range(A))

Self ==
    [vcenter |-> vcenter, halfrange |-> halfrange, vmin |-> vmin, vmax |-> vmax,
     clip |-> clip]

\* set_vmin_vmax around 0 instead of around vcenter
set_vmin_vmax_AroundZero(o) ==
    [o EXCEPT !.vmax = Some(o.halfrange[1]),
              !.vmin = Some(-o.halfrange[1])]

\* _set_vmin_vmax
set_vmin_vmax(o) ==
    [o EXCEPT !.vmax = Some(o.vcenter + o.halfrange[1]),
              !.vmin = Some(o.vcenter - o.halfrange[1])]

\* autoscale looking at the upper span only
autoscale_UpperSpan(o, A) ==
    set_vmin_vmax([o EXCEPT !.halfrange = Some(ArrayMax(A) - o.vcenter)])

\* autoscale(A), A not empty (A.min() raises on an empty array)
autoscale(o, A) ==
    set_vmin_vmax(
        [o EXCEPT !.halfrange = Some(Max(o.vcenter - ArrayMin(A),
                                         ArrayMax(A) - o.vcenter))])

\* autoscale_None(A)
autoscale_None(o, A) ==
    IF o.halfrange = None /\ Len(A) # 0 THEN autoscale(o, A) ELSE o

\* the vcenter setter keeping the halfrange it finds
vcenter_setter_KeepHalfrange(o, c) ==
    LET o1 == [o EXCEPT !.vcenter = c]
    IN  IF o1.vmax # None /\ o1.halfrange # None THEN set_vmin_vmax(o1) ELSE o1

\* the vcenter setter
vcenter_setter(o, c) ==
    LET o1 == [o EXCEPT !.vcenter = c]
    IN  IF o1.vmax # None
        THEN set_vmin_vmax(
                [o1 EXCEPT !.halfrange = Some(Max(o1.vcenter - o1.vmin[1],
                                                  o1.vmax[1] - o1.vcenter))])
        ELSE o1

\* the halfrange setter; h is None or Some(value)
halfrange_setter(o, h) ==
    IF h = None
    THEN [o EXCEPT !.halfrange = None, !.vmin = None, !.vmax = None]
    ELSE [o EXCEPT !.halfrange = Some(Abs(h[1]))]

\* __init__(vcenter, halfrange, clip)
CenteredNorm_init(vc, h, cl) ==
    halfrange_setter(
        [vcenter |-> vc, halfrange |-> None, vmin |-> None, vmax |-> None,
         clip |-> cl], h)

\* colors.Normalize.__call__(value, clip) on a scalar value, reached through
\* super().__call__: clip defaults to self.clip; self.autoscale_None(value);
\* a vmin or vmax still None raises; vmin == vmax gives 0; vmin > vmax raises
\* ValueError; otherwise the value,
\* clipped to [vmin, vmax] when clip is on, maps to (value - vmin) / (vmax - vmin)
Normalize_call(o, value, clipArg) ==
    LET c  == IF clipArg = "None" THEN o.clip ELSE clipArg = "True"
        o1 == autoscale_None(o, <<value>>)
        lo == o1.vmin[1]
        hi == o1.vmax[1]
        v  == IF c THEN (IF value < lo THEN lo ELSE IF value > hi THEN hi ELSE value)
              ELSE value
    IN  IF o1.vmin = None \/ o1.vmax = None
        THEN [obj |-> o1, raised |-> TRUE, result |-> NaN]
        ELSE IF lo = hi THEN [obj |-> o1, raised |-> FALSE, result |-> Rat(0, 1)]
        ELSE IF lo > hi THEN [obj |-> o1, raised |-> TRUE, result |-> NaN]
        ELSE [obj |-> o1, raised |-> FALSE, result |-> Rat(v - lo, hi - lo)]

\* __call__ without the reset of vmin and vmax
CenteredNorm_call_NoReset(o, value, clipArg) == Normalize_call(o, value, clipArg)

\* __call__(value, clip)
CenteredNorm_call(o, value, clipArg) ==
    Normalize_call(IF o.halfrange # None THEN set_vmin_vmax(o) ELSE o,
                   value, clipArg)

Become(o) ==
    /\ vcenter' = o.vcenter
    /\ halfrange' = o.halfrange
    /\ vmin' = o.vmin
    /\ vmax' = o.vmax
    /\ clip' = o.clip

\* the halfrange values the model follows
InRange(o) == IF o.halfrange = None THEN TRUE ELSE o.halfrange[1] <= MaxHalf

Autoscale ==
    /\ \E A \in Arrays :
        /\ IF Len(A) = 0
           THEN UNCHANGED <<vcenter, halfrange, vmin, vmax, clip>>
           ELSE Become(autoscale(Self, A))
        /\ last' = [op |-> "autoscale", A |-> A, raised |-> Len(A) = 0]
    /\ UNCHANGED mainVars

AutoscaleNone ==
    /\ \E A \in Arrays :
        /\ Become(autoscale_None(Self, A))
        /\ last' = [op |-> "autoscale_None", A |-> A, raised |-> FALSE]
    /\ UNCHANGED mainVars

SetVcenter ==
    /\ \E c \in Vals :
        /\ InRange(vcenter_setter(Self, c))
        /\ Become(vcenter_setter(Self, c))
        /\ last' = [op |-> "vcenter", value |-> c, raised |-> FALSE]
    /\ UNCHANGED mainVars

SetHalfrange ==
    /\ \E h \in {None} \cup {Some(x) : x \in Vals} :
        /\ Become(halfrange_setter(Self, h))
        /\ last' = [op |-> "halfrange", value |-> h, raised |-> FALSE]
    /\ UNCHANGED mainVars

Call ==
    /\ \E value \in Vals, clipArg \in {"None", "True", "False"} :
        LET r == CenteredNorm_call(Self, value, clipArg)
        IN  /\ Become(r.obj)
            /\ last' = [op |-> "__call__", value |-> value, had |-> halfrange,
                        clip |-> IF clipArg = "None" THEN clip ELSE clipArg = "True",
                        raised |-> r.raised, result |-> r.result]
    /\ UNCHANGED mainVars

\* the pipeline variables while only the norm is exercised
MainIdle ==
    /\ pc = "idle"
    /\ file_a = NoFile
    /\ file_b = NoFile
    /\ zero = TRUE
    /\ exits = <<>>
    /\ log = <<>>
    /\ args = <<>>
    /\ delta_df = <<>>
    /\ count = 0
    /\ count2 = 0
    /\ tmps = <<>>
    /\ todo = <<>>
    /\ panels = <<>>
    /\ saved = 0

\* after CenteredNorm(vcenter, halfrange, clip)
NormInit ==
    /\ MainIdle
    /\ \E vc \in Vals, h \in {None} \cup {Some(x) : x \in Vals}, cl \in BOOLEAN :
        LET o == CenteredNorm_init(vc, h, cl)
        IN  /\ vcenter = o.vcenter
            /\ halfrange = o.halfrange
            /\ vmin = o.vmin
            /\ vmax = o.vmax
            /\ clip = o.clip
            /\ last = [op |-> "__init__", value |-> h, raised |-> FALSE]

NormNext ==
    \/ Autoscale
    \/ AutoscaleNone
    \/ SetVcenter
    \/ SetHalfrange
    \/ Call

NormSpec == NormInit /\ [][NormNext]_vars

\* ------------------------------------------------------------------------
\* plot_data(title, *args) called directly with any number of datasets
\* ------------------------------------------------------------------------
\* a processed dataset of n rows with n distinct ratios, ascending or not
DirectDataset(n, up) ==
    [dataframe |->
        [k \in 1..n |->
            [idx |-> k - 1,
             ratio |-> Rat(IF up THEN k ELSE n + 1 - k, 1),
             conn_size |-> k, value_size |-> 2,
             read |-> Rat(k, 1), write |-> Rat(1, 2)]],
     param |-> <<>>]
DirectDatasets == {DirectDataset(n, up) : n \in 0..MaxGroups, up \in BOOLEAN}

PlotInit ==
    /\ pc = "plot_data"
    /\ file_a = NoFile
    /\ file_b = NoFile
    /\ zero \in BOOLEAN
    /\ exits = <<>>
    /\ log = <<>>
    /\ args \in UNION {[1..n -> DirectDatasets] : n \in 0..3}
    /\ delta_df = <<>>
    /\ count = 0
    /\ count2 = 0
    /\ tmps = <<>>
    /\ todo = <<>>
    /\ panels = <<>>
    /\ saved = 0
    /\ NormIdle

PlotNext ==
    \/ PlotDataEnter
    \/ DrawSingle
    \/ NextDataset
    \/ DrawDual
    \/ SaveFig

PlotSpec == PlotInit /\ [][PlotNext]_vars

\* ------------------------------------------------------------------------
\* Properties of the loader (checked under Spec)
\* ------------------------------------------------------------------------
\* the files main() hands to load_data_files that are not None
Given == SelectSeq(<<file_a, file_b>>, LAMBDA f : f.kind # "none")
Loaded == pc \notin {"main", "exit"}

RECURSIVE SumOver(_, _, _, _)
\* the sum, over the columns in cols, of component comp of row r's cells
SumOver(f, r, comp, cols) ==
    IF cols = {} THEN 0
    ELSE LET c == CHOOSE x \in cols : TRUE
         IN  FloatOf(Split(f.rows[r][c])[comp]) + SumOver(f, r, comp, cols \ {c})

IterColumnSet(f) == {c \in Range(f.header) : ContainsIter(c)}
DataRowSet(f) == {r \in 1..Len(f.rows) : f.rows[r]["type"] = "DATA"}

\* the unweighted mean of component comp of row r over the iteration columns
RowMean(f, r, comp) ==
    Rat(SumOver(f, r, comp, IterColumnSet(f)), Cardinality(IterColumnSet(f)))

\* C1: whenever the files have loaded, the i-th dataset has one row per DATA
\* row of the i-th file, and the row's 'read' is the arithmetic mean of
\* component 0, its 'write' the arithmetic mean of component 1, of that DATA
\* row's cells over all columns whose name contains "iter"
C1_ReadWriteAreMeans ==
    Loaded =>
        \A i \in 1..Len(Given) :
            LET f  == Given[i]
                df == args[i].dataframe
            IN  /\ Len(df) = Cardinality(DataRowSet(f))
                /\ \A r \in DataRowSet(f) :
                      \E k \in 1..Len(df) :
                          /\ df[k].idx = r - 1
                          /\ RatEq(df[k].read, RowMean(f, r, 1))
                          /\ RatEq(df[k].write, RowMean(f, r, 2))

\* a file with two iteration columns and two DATA rows has loaded, and the
\* mean of a row is not a whole number
C1_Witness ==
    /\ pc = "plot_data"
    /\ Len(IterCols(file_a)) = 2
    /\ Len(args[1].dataframe) = 2
    /\ \E k \in 1..2 :
          /\ args[1].dataframe[k].read.den = 2
          /\ args[1].dataframe[k].read.num % 2 = 1
          /\ ~RatEq(args[1].dataframe[k].read, args[1].dataframe[k].write)

\* the percent change (b - a) / a * 100 of two finite values, a # 0
PctChange(a, b) ==
    Rat((b.num * a.den - a.num * b.den) * 100, b.den * a.num)

\* C2: in dual mode, when both datasets have the same number of rows, row k
\* of the delta dataset holds (b - a) / a * 100 of row k of A and row k of B
\* (paired by position), a non-finite value where a is 0
C2_DeltaByPosition ==
    (Loaded /\ pc # "plot_data" /\ Len(args) = 2
        /\ Len(args[1].dataframe) = Len(args[2].dataframe)) =>
        /\ Len(delta_df) = Len(args[2].dataframe)
        /\ \A k \in 1..Len(delta_df) :
              LET a == args[1].dataframe[k]
                  b == args[2].dataframe[k]
              IN  /\ IF a.read.num = 0 THEN ~IsFinite(delta_df[k].read)
                     ELSE RatEq(delta_df[k].read, PctChange(a.read, b.read))
                  /\ IF a.write.num = 0 THEN ~IsFinite(delta_df[k].write)
                     ELSE RatEq(delta_df[k].write, PctChange(a.write, b.write))

\* the columns the input format names: type, comment, ratio, conn_size,
\* value_size and at least one iteration column
LacksExpectedColumn(f) ==
    \/ \E c \in {"type", "comment", "ratio", "conn_size", "value_size"} : ~HasCol(f, c)
    \/ IterColumnSet(f) = {}

\* the columns the loader reads in this file: comment only when the file has
\* a PARAM row
LacksNeededColumn(f) ==
    \/ \E c \in {"type", "ratio", "conn_size", "value_size"} : ~HasCol(f, c)
    \/ IterColumnSet(f) = {}
    \/ ~HasCol(f, "comment") /\ \E r \in 1..Len(f.rows) : f.rows[r]["type"] = "PARAM"

\* a ratio, conn_size or value_size of a DATA row holds text that is no number
NonNumericField(f) ==
    /\ HasCol(f, "type")
    /\ \E r \in DataRowSet(f) :
          \E c \in {"ratio", "conn_size", "value_size"} \cap Range(f.header) :
              Len(f.rows[r][c]) > 0 /\ ~IsNumber(f.rows[r][c])

\* an iteration cell of a DATA row has no ':' separator
CellWithoutColon(f) ==
    /\ HasCol(f, "type")
    /\ \E r \in DataRowSet(f) :
          \E c \in IterColumnSet(f) : ":" \notin Range(f.rows[r][c])

\* load_data_files has logged an error and ended the process with code 1
\* before plot_data was entered, and no image is written
ExitsBeforePlot ==
    /\ pc \in {"main", "exit"}
    /\ saved = 0
    /\ pc = "exit" => exits = <<1>> /\ Len(log) = 1

CellNotAPair(f) ==
    /\ HasCol(f, "type")
    /\ \E r \in DataRowSet(f) :
          \E c \in IterColumnSet(f) :
              Len(f.rows[r][c]) = 0 \/ Len(Split(f.rows[r][c])) # 2

\* C4: a file with an iteration cell on a DATA row that does not split on ':'
\* into exactly two components makes load_data_files exit with code 1
\* instead of producing a dataset
C4_PairOrExit ==
    (\E i \in 1..Len(Given) : Given[i].kind = "file" /\ CellNotAPair(Given[i]))
    => ExitsBeforePlot

\* ------------------------------------------------------------------------
\* Properties of CenteredNorm (checked under NormSpec)
\* ------------------------------------------------------------------------
\* C5: autoscale(data) on non-empty data sets halfrange to
\* max(vcenter - min(data), max(data) - vcenter), vmin to vcenter - halfrange
\* and vmax to vcenter + halfrange, so that [vmin, vmax] is symmetric around
\* vcenter and holds min(data) and max(data); autoscale_None(data) does the
\* same when halfrange is unset and data is non-empty, and otherwise leaves
\* halfrange, vmin and vmax unchanged
C5_Autoscale ==
    [][LET A == last'.A
           scaled ==
               /\ \A i \in 1..Len(A) : halfrange'[1] >= Abs(A[i] - vcenter)
               /\ \E i \in 1..Len(A) : halfrange'[1] = Abs(A[i] - vcenter)
               /\ halfrange' = Some(Max(vcenter - ArrayMin(A), ArrayMax(A) - vcenter))
               /\ vmin' = Some(vcenter - halfrange'[1])
               /\ vmax' = Some(vcenter + halfrange'[1])
               /\ vmax'[1] - vcenter = vcenter - vmin'[1]
               /\ vmin'[1] <= ArrayMin(A) /\ ArrayMax(A) <= vmax'[1]
               /\ vcenter' = vcenter
       IN  /\ (last'.op = "autoscale" /\ Len(A) # 0) => scaled
           /\ last'.op = "autoscale_None" =>
                 IF halfrange = None /\ Len(A) # 0
                 THEN scaled
                 ELSE UNCHANGED <<vcenter, halfrange, vmin, vmax>>
      ]_vars

\* autoscale has scaled a norm centred at 0 to data that is not symmetric
C5_Witness ==
    /\ last.op = "autoscale"
    /\ last.A = <<-2, 1>>
    /\ vcenter = 0
    /\ halfrange = Some(2)
    /\ vmin = Some(-2)
    /\ vmax = Some(2)

\* value v clipped to [lo, hi]
Clipped(v, lo, hi) == IF v < lo THEN lo ELSE IF v > hi THEN hi ELSE v

\* C6 as stated (read for calls that do not clip): a call on v with halfrange
\* h set returns 0.5 + (v - vcenter) / (2h), for every halfrange the object
\* can hold, a halfrange of 0 included (so that vcenter maps to 0.5)
C6_Original ==
    (last.op = "__call__" /\ last.had # None /\ ~last.clip) =>
        LET h == halfrange[1]
        IN  /\ ~last.raised
            /\ halfrange = last.had
            /\ RatEq(last.result, Rat(h + last.value - vcenter, 2 * h))
            /\ last.value = vcenter => RatEq(last.result, Rat(1, 2))

\* C6 as amended: a call on v with halfrange h > 0 set and clipping off (or v
\* inside [vcenter - h, vcenter + h]) returns 0.5 + (v - vcenter) / (2h), so
\* that vcenter maps to 0.5, vcenter - h to 0 and vcenter + h to 1; with
\* clipping on, a value outside the interval maps as the nearer end of it;
\* with a halfrange of 0 every value maps to 0
C6_Amended ==
    (last.op = "__call__" /\ last.had # None) =>
        LET h == halfrange[1]
            v == last.value
        IN  /\ ~last.raised
            /\ halfrange = last.had
            /\ h = 0 => last.result = Rat(0, 1)
            /\ (h > 0 /\ (~last.clip \/ (vcenter - h <= v /\ v <= vcenter + h))) =>
                  /\ RatEq(last.result, Rat(h + v - vcenter, 2 * h))
                  /\ v = vcenter => RatEq(last.result, Rat(1, 2))
                  /\ v = vcenter - h => RatEq(last.result, Rat(0, 1))
                  /\ v = vcenter + h => RatEq(last.result, Rat(1, 1))
            /\ (h > 0 /\ last.clip) =>
                  RatEq(last.result,
                        Rat(h + Clipped(v, vcenter - h, vcenter + h) - vcenter, 2 * h))

\* a norm centred at 1 with halfrange 2 has mapped the value 2 to 3/4
C6_Witness ==
    /\ last.op = "__call__"
    /\ last.had # None
    /\ ~last.raised
    /\ vcenter = 1
    /\ halfrange = Some(2)
    /\ last.value = 2
    /\ RatEq(last.result, Rat(3, 4))

\* C7: assigning vcenter while vmin/vmax are set recomputes halfrange as
\* max(new vcenter - old vmin, old vmax - new vcenter) and re-derives vmin and
\* vmax around the new vcenter, so that the new [vmin, vmax] contains the old
\* one; assigning it while vmin/vmax are unset changes only vcenter
C7_VcenterSetter ==
    [][last'.op = "vcenter" =>
          /\ vcenter' = last'.value
          /\ (vmin = None) <=> (vmax = None)
          /\ IF vmax # None
             THEN /\ halfrange' = Some(Max(vcenter' - vmin[1], vmax[1] - vcenter'))
                  /\ vmin' = Some(vcenter' - halfrange'[1])
                  /\ vmax' = Some(vcenter' + halfrange'[1])
                  /\ vmin'[1] <= vmin[1]
                  /\ vmax[1] <= vmax'[1]
             ELSE UNCHANGED <<halfrange, vmin, vmax>>
      ]_vars

\* vcenter was moved to 1 on a norm whose interval was [-1, 1]: the halfrange
\* grew to 2 and the interval to [-1, 3]
C7_Witness ==
    /\ last.op = "vcenter"
    /\ vcenter = 1
    /\ halfrange = Some(2)
    /\ vmin = Some(-1)
    /\ vmax = Some(3)

\* C10: halfrange is unset or not negative, and a call made while halfrange
\* is set maps with vmin = vcenter - halfrange and vmax = vcenter + halfrange
\* of the current vcenter and halfrange
C10_CallUsesCurrentRange ==
    /\ halfrange # None => halfrange[1] >= 0
    /\ (last.op = "__call__" /\ last.had # None) =>
          LET h  == halfrange[1]
              lo == vcenter - h
              hi == vcenter + h
              v  == IF last.clip THEN Clipped(last.value, lo, hi) ELSE last.value
          IN  /\ ~last.raised
              /\ halfrange = last.had
              /\ vmin = Some(lo)
              /\ vmax = Some(hi)
              /\ IF lo = hi THEN last.result = Rat(0, 1)
                 ELSE RatEq(last.result, Rat(v - lo, hi - lo))

\* a call on a norm centred at 1 with halfrange 1 has mapped over [0, 2]
C10_Witness ==
    /\ last.op = "__call__"
    /\ last.had = Some(1)
    /\ vcenter = 1
    /\ halfrange = Some(1)
    /\ vmin = Some(0)
    /\ vmax = Some(2)
    /\ last.value = 2
    /\ RatEq(last.result, Rat(1, 1))

\* ------------------------------------------------------------------------
\* Properties of plot_data (checked under PlotSpec)
\* ------------------------------------------------------------------------
\* the number of ratio groups of the datasets plot_data draws
GroupCounts ==
    IF Len(args) = 1 THEN <<Len(GroupBy(args[1].dataframe))>>
    ELSE <<Len(GroupBy(args[1].dataframe)), Len(GroupBy(args[2].dataframe)),
           Len(GroupBy(delta_df))>>
RECURSIVE SeqSum(_)
SeqSum(q) == IF Len(q) = 0 THEN 0 ELSE q[1] + SeqSum(Tail(q))

\* C8: plot_data saves the image only as the last step of a complete render:
\* with a number of datasets other than 1 or 2 it raises and never saves;
\* with 1 or 2 it saves once, after every panel has been drawn; when drawing a
\* panel fails (a 9th ratio group does not fit the 4x2 or the 8x3 grid) it
\* never saves
C8_SaveOnlyWhenComplete ==
    /\ saved \in {0, 1}
    /\ Len(args) \notin {1, 2} => saved = 0 /\ pc \in {"plot_data", "raised"}
    /\ pc = "raised" => saved = 0
    /\ saved = 1 <=> pc = "done"
    /\ pc = "done" =>
          /\ Len(args) \in {1, 2}
          /\ Len(panels) = SeqSum(GroupCounts)
          /\ \A c \in 1..Len(GroupCounts) : GroupCounts[c] <= 8
    /\ (pc \in {"single", "dual"} /\ todo # <<>>) => saved = 0

\* the image of a complete dual render of 8 ratio groups has been saved
C8_Witness ==
    /\ pc = "done"
    /\ saved = 1
    /\ Len(args) = 2
    /\ Len(panels) = 24

\* the dataset whose panels fill column c of the dual grid
ColumnDataset(c) ==
    IF c = 1 THEN args[1].dataframe
    ELSE IF c = 2 THEN args[2].dataframe
    ELSE delta_df

\* C9: in dual mode with at most 8 ratios, the panel of dataset column c for
\* the r-th ratio group is drawn in slot c + 3 * (r - 1) of the 8x3 grid, no
\* slot is drawn twice, and exactly the panels of column 3 (delta) get the
\* 'bwr' colour map, a CenteredNorm when zero-centering is on and the
\* percentage colour bar, every other panel 'viridis', no norm and a plain
\* colour bar; a finished render has drawn every group of every column
C9_DualGrid ==
    (Len(args) = 2 /\ pc \in {"dual", "done"}
        /\ \A c \in 1..3 : Len(GroupBy(ColumnDataset(c))) <= 8) =>
        /\ \A i \in 1..Len(panels) :
              LET p == panels[i]
                  g == GroupBy(ColumnDataset(p.src))
              IN  /\ p.src \in 1..3
                  /\ p.grid = <<8, 3>>
                  /\ \E r \in 1..Len(g) :
                        g[r].val = p.val /\ p.slot = p.src + 3 * (r - 1)
                  /\ p.slot \in 1..24
                  /\ IF p.src = 3
                     THEN /\ p.cmap = "bwr"
                          /\ p.norm = IF zero THEN "CenteredNorm" ELSE "None"
                          /\ p.colorbar = "%.2f%%"
                     ELSE /\ p.cmap = "viridis"
                          /\ p.norm = "None"
                          /\ p.colorbar = "plain"
        /\ \A i, j \in 1..Len(panels) : panels[i].slot = panels[j].slot => i = j
        /\ pc = "done" =>
              \A c \in 1..3 : \A r \in 1..Len(GroupBy(ColumnDataset(c))) :
                  \E i \in 1..Len(panels) :
                      panels[i].src = c /\ panels[i].slot = c + 3 * (r - 1)

\* a zero-centred dual render of 8 ratio groups is complete: its last delta
\* panel sits in slot 24 with a CenteredNorm
C9_Witness ==
    /\ pc = "done"
    /\ Len(args) = 2
    /\ zero
    /\ \E i \in 1..Len(panels) :
          /\ panels[i].slot = 24
          /\ panels[i].src = 3
          /\ panels[i].norm = "CenteredNorm"
    /\ \E i \in 1..Len(panels) : panels[i].slot = 22 /\ panels[i].src = 1

==========================================================================
